---- MODULE Spec2Model ----
(***************************************************************************)
(* Barcode Battler II barcode decoder (src/src/lib/barcode-parser.ts).     *)
(*                                                                         *)
(* A barcode is a sequence of one-character strings.  A JavaScript object  *)
(* is a function from field names to values; a field whose value is        *)
(* undefined is left out of the function.  The two kinds of object that    *)
(* the exception table hands out by reference (stats, reasonContext) are   *)
(* held in a returned record either by value (an object created by the     *)
(* call) or as a reference into the table.  The explanationContext of a    *)
(* digit mapping (interpolation data of the UI text) is not modelled.      *)
(* methodUsed (1 | 2 | 'Exception') is written as "1", "2", "Exception".   *)
(***************************************************************************)
EXTENDS Integers, Sequences, FiniteSets, TLC

VARIABLES exceptions, pending, calls

vars == <<exceptions, pending, calls>>

(***************************************************************************)
(* Characters and strings                                                  *)
(***************************************************************************)
DigitChars == <<"0", "1", "2", "3", "4", "5", "6", "7", "8", "9">>

Digits == {DigitChars[i] : i \in 1..10}

Whitespace == {" ", "\t"}

Undefined == ""

\* undefined where an object is expected.
NoObject == <<>>

\* A digit string written as a tuple of numbers.
D(ns) == [i \in DOMAIN ns |-> DigitChars[ns[i] + 1]]

\* barcode[i] of JavaScript: 0-based, undefined outside the string.
charAt(s, i) == IF i + 1 \in DOMAIN s THEN s[i + 1] ELSE Undefined

\* The digit taken as a distance from the character '1'.
safeParseIntFromOne(char) ==
  LET c == IF char = Undefined THEN "0" ELSE char
  IN  (CHOOSE n \in 0..9 : DigitChars[n + 1] = c) - 1

\* parseInt(char || '0', 10) on a single character.
safeParseInt(char) ==
  LET c == IF char = Undefined THEN "0" ELSE char
  IN  CHOOSE n \in 0..9 : DigitChars[n + 1] = c

IsWhitespace(c) == c \in Whitespace

\* barcode.trim(): only the whitespace at the two ends is removed.
cleanBarcodeTrim(barcode) ==
  LET keep == {i \in DOMAIN barcode : ~IsWhitespace(barcode[i])}
  IN  IF keep = {} THEN <<>>
      ELSE SubSeq(barcode, CHOOSE i \in keep : \A j \in keep : i <= j,
                  CHOOSE i \in keep : \A j \in keep : i >= j)

\* barcode.replace(/ /g, ''): only the space character is removed.
cleanBarcodeSpacesOnly(barcode) == SelectSeq(barcode, LAMBDA c : c # " ")

\* barcode.replace(/\s+/g, ''): every whitespace character is removed.
cleanBarcode(barcode) == SelectSeq(barcode, LAMBDA c : ~IsWhitespace(c))

\* /^\d+$/.test(s): at least one character and all of them digits.
allDigits(s) == Len(s) > 0 /\ \A i \in DOMAIN s : s[i] \in Digits

(***************************************************************************)
(* JavaScript objects                                                      *)
(***************************************************************************)
\* A field that is present only when its value is defined.
Opt(k, present, v) == IF present THEN k :> v ELSE <<>>

\* { ...a, ...b }: the fields of b override those of a.
spread(a, b) == b @@ a

Ref(k, f) == [ref |-> k, field |-> f]

IsRef(v) == "ref" \in DOMAIN v

ObjectFields == {"stats", "reasonContext"}

\* The fields of a table entry as a spread copies them: primitives by
\* value, nested objects by reference.
shallowCopy(k) ==
  [f \in DOMAIN exceptions[k] |->
     IF f \in ObjectFields THEN Ref(k, f) ELSE exceptions[k][f]]

\* What a reader of record r sees under table exc.
View(exc, r) ==
  [f \in DOMAIN r |->
     IF f \in ObjectFields /\ IsRef(r[f]) THEN exc[r[f].ref][r[f].field]
     ELSE r[f]]

(***************************************************************************)
(* Exception table                                                         *)
(***************************************************************************)
Console1 == D(<<4, 9, 0, 5, 0, 4, 0, 3, 5, 2, 5, 0, 7>>)

Console2 == D(<<4, 9, 0, 5, 0, 4, 0, 3, 5, 2, 5, 2, 1>>)

Rarman == D(<<0, 1, 2, 0, 4, 0, 1, 1, 5, 4, 1, 8, 5>>)

URonchan == D(<<0, 1, 2, 0, 2, 0, 1, 0, 4, 4, 1, 8, 1>>)

BonCurry == D(<<0, 1, 2, 0, 1, 0, 2, 3, 0, 8, 1, 8, 4>>)

ChaHan == D(<<0, 1, 5, 0, 6, 0, 4, 1, 5, 4, 1, 8, 7>>)

Meatman == D(<<0, 1, 8, 0, 5, 0, 6, 3, 0, 8, 1, 8, 0>>)

\* A fixed-product entry written without its methodUsed.
epochEntryNoMethod(bc, product, type, dx, mp, occ) ==
  [barcode |-> bc, isValid |-> TRUE,
   reasonKey |-> "reasonExceptionEpoch",
   reasonContext |-> [productName |-> product],
   cardType |-> type,
   stats |-> [hp |-> 5200, st |-> 1500, df |-> 100, dx |-> dx, pp |-> 5, mp |-> mp],
   race |-> 1, occupation |-> occ, flag |-> 50, isHero |-> TRUE]

epochEntry(bc, product, type, dx, mp, occ) ==
  [barcode |-> bc, isValid |-> TRUE, methodUsed |-> "Exception",
   reasonKey |-> "reasonExceptionEpoch",
   reasonContext |-> [productName |-> product],
   cardType |-> type,
   stats |-> [hp |-> 5200, st |-> 1500, df |-> 100, dx |-> dx, pp |-> 5, mp |-> mp],
   race |-> 1, occupation |-> occ, flag |-> 50, isHero |-> TRUE]

heroEntry(bc, name) ==
  [barcode |-> bc, isValid |-> TRUE, methodUsed |-> "Exception",
   reasonKey |-> "reasonExceptionOriginalHero",
   reasonContext |-> [heroName |-> name]]

exceptionsTable ==
     Console1 :> epochEntry(Console1, "Barcode Battler Console", "Soldier", 6, 0, 0)
  @@ Console2 :> epochEntry(Console2, "Barcode Battler II Console", "Wizard", 7, 10, 8)
  @@ Rarman :> heroEntry(Rarman, "Rarman")
  @@ URonchan :> heroEntry(URonchan, "U-Ronchan")
  @@ BonCurry :> heroEntry(BonCurry, "Bon-Curry")
  @@ ChaHan :> heroEntry(ChaHan, "Cha-Han")
  @@ Meatman :> heroEntry(Meatman, "Meatman")

\* Computed once when the module is loaded.
originalHeroBarcodes ==
  {bc \in DOMAIN exceptionsTable :
     exceptionsTable[bc].reasonKey = "reasonExceptionOriginalHero"}

(***************************************************************************)
(* Method 1                                                                *)
(***************************************************************************)
Mapping(indices, key) == [indices |-> indices, explanationKey |-> key]

\* [...].filter((val, idx, self) => self.indexOf(val) === idx)
RECURSIVE unique(_)
unique(s) ==
  IF s = <<>> THEN <<>>
  ELSE LET front == unique(SubSeq(s, 1, Len(s) - 1))
           last == s[Len(s)]
       IN  IF \E i \in DOMAIN front : front[i] = last THEN front
           ELSE Append(front, last)

clamp(n) == IF n < 0 THEN 0 ELSE n

\* The hero test without the stat ceilings.
isHeroMethod1NoCeilings(flag, hp, st, df) ==
  flag = 19 \/ flag = 50

\* The hero test that knows flag 50 only.
isHeroMethod1FlagFifty(flag, hp, st, df) ==
  flag = 50 /\ hp < 6000 /\ st < 2000 /\ df < 2000

isHeroMethod1(flag, hp, st, df) ==
  (flag = 19 \/ flag = 50) /\ hp < 6000 /\ st < 2000 /\ df < 2000

\* The branch with the pp of a Herb taken from the base ST, D*1000 + E*100.
method1BranchHerbFromSt(A, B, C, D_, E, F, G, H, I, stAddition, dfAddition, stIndices, dfIndices) ==
  LET hp == A * 10000 + B * 1000 + C * 100
      baseSt == D_ * 1000 + E * 100
      baseDf == F * 1000 + G * 100
      occMap == "occupation" :> Mapping(<<8>>, "explanationOccupationMethod1")
  IN
  CASE H >= 0 /\ H <= 4 ->
         [cardType |-> IF I >= 7 THEN "Wizard" ELSE "Soldier",
          hp |-> hp, st |-> baseSt + stAddition, df |-> baseDf + dfAddition,
          statsOpt |-> "pp" :> 5 @@ "mp" :> (IF I >= 6 THEN 10 ELSE 0),
          opt |-> "race" :> H @@ "occupation" :> I,
          cardTypeIndices |-> <<7, 8>>,
          cardTypeExplanationKey |-> "explanationCardTypeMethod1Char",
          hpKey |-> "explanationHpMethod1",
          maps |-> "race" :> Mapping(<<7>>, "explanationRaceMethod1")
                @@ occMap
                @@ "stats.st" :> Mapping(stIndices, "explanationStMethod1Char")
                @@ "stats.df" :> Mapping(dfIndices, "explanationDfMethod1Char")
                @@ "stats.pp" :> Mapping(<<>>, "explanationPpMethod1")
                @@ "stats.mp" :> Mapping(<<8>>, "explanationMpMethod1")]
    [] H = 5 \/ H = 6 ->
         [cardType |-> "Weapon",
          hp |-> 0, st |-> baseSt + stAddition, df |-> 0,
          statsOpt |-> <<>>,
          opt |-> "occupation" :> I @@ "isSingleUse" :> (H = 5),
          cardTypeIndices |-> <<7>>,
          cardTypeExplanationKey |-> "explanationCardTypeMethod1Weapon",
          hpKey |-> "explanationHpMethod1WeaponArmour",
          maps |-> occMap
                @@ "isSingleUse" :> Mapping(<<7>>, "explanationSingleUseMethod1")
                @@ "stats.st" :> Mapping(stIndices, "explanationStMethod1Weapon")
                @@ "stats.df" :> Mapping(dfIndices, "explanationDfMethod1Weapon")]
    [] H = 7 \/ H = 8 ->
         [cardType |-> "Armour",
          hp |-> 0, st |-> 0, df |-> baseDf + dfAddition,
          statsOpt |-> <<>>,
          opt |-> "occupation" :> I @@ "isSingleUse" :> (H = 7),
          cardTypeIndices |-> <<7>>,
          cardTypeExplanationKey |-> "explanationCardTypeMethod1Armour",
          hpKey |-> "explanationHpMethod1WeaponArmour",
          maps |-> occMap
                @@ "isSingleUse" :> Mapping(<<7>>, "explanationSingleUseMethod1")
                @@ "stats.df" :> Mapping(dfIndices, "explanationDfMethod1Armour")
                @@ "stats.st" :> Mapping(stIndices, "explanationStMethod1Armour")]
    [] H = 9 ->
         LET sub ==
               CASE I >= 0 /\ I <= 4 ->
                      [powerUpType |-> "Health", hp |-> hp, statsOpt |-> <<>>,
                       hpKey |-> "explanationHpMethod1",
                       stKey |-> "explanationStMethod1HealthPowerUp",
                       dfKey |-> "explanationDfMethod1HealthPowerUp",
                       maps |-> <<>>]
                 [] I = 5 \/ I = 6 ->
                      [powerUpType |-> IF I = 5 THEN "VagueNews" ELSE "AccurateNews",
                       hp |-> 0, statsOpt |-> <<>>,
                       hpKey |-> "explanationHpMethod1NewsPowerUp",
                       stKey |-> "explanationStMethod1NewsPowerUp",
                       dfKey |-> "explanationDfMethod1NewsPowerUp",
                       maps |-> <<>>]
                 [] I = 7 ->
                      [powerUpType |-> "Herb", hp |-> 0,
                       statsOpt |-> "pp" :> baseSt,
                       hpKey |-> "explanationHpMethod1HerbPowerUp",
                       stKey |-> "explanationStMethod1HerbPowerUp",
                       dfKey |-> "explanationDfMethod1HerbPowerUp",
                       maps |-> "stats.pp" :> Mapping(<<3, 4>>, "explanationPpMethod1Herb")]
                 [] OTHER ->
                      [powerUpType |-> "Magic", hp |-> 0,
                       statsOpt |-> "mp" :> (F * 100 + G),
                       hpKey |-> "explanationHpMethod1MagicPowerUp",
                       stKey |-> "explanationStMethod1MagicPowerUp",
                       dfKey |-> "explanationDfMethod1MagicPowerUp",
                       maps |-> "stats.mp" :> Mapping(<<5, 6>>, "explanationMpMethod1Magic")]
         IN  [cardType |-> "PowerUp",
              hp |-> sub.hp, st |-> 0, df |-> 0,
              statsOpt |-> sub.statsOpt,
              opt |-> "powerUpType" :> sub.powerUpType,
              cardTypeIndices |-> <<7, 8>>,
              cardTypeExplanationKey |-> "explanationCardTypeMethod1PowerUp",
              hpKey |-> sub.hpKey,
              maps |-> sub.maps
                    @@ "stats.st" :> Mapping(<<3, 4>>, sub.stKey)
                    @@ "stats.df" :> Mapping(<<5, 6>>, sub.dfKey)
                    @@ "powerUpType" :> Mapping(<<8>>, "explanationPowerUpTypeMethod1")]
    [] OTHER ->
         [cardType |-> "Unknown",
          hp |-> hp, st |-> baseSt, df |-> baseDf,
          statsOpt |-> <<>>, opt |-> <<>>,
          cardTypeIndices |-> <<7>>,
          cardTypeExplanationKey |-> "",
          hpKey |-> "explanationHpMethod1",
          maps |-> <<>>]

\* The branch with the single-use Armour taken to be H = 8.
method1BranchDurableSeven(A, B, C, D_, E, F, G, H, I, stAddition, dfAddition, stIndices, dfIndices) ==
  LET hp == A * 10000 + B * 1000 + C * 100
      baseSt == D_ * 1000 + E * 100
      baseDf == F * 1000 + G * 100
      occMap == "occupation" :> Mapping(<<8>>, "explanationOccupationMethod1")
  IN
  CASE H >= 0 /\ H <= 4 ->
         [cardType |-> IF I >= 7 THEN "Wizard" ELSE "Soldier",
          hp |-> hp, st |-> baseSt + stAddition, df |-> baseDf + dfAddition,
          statsOpt |-> "pp" :> 5 @@ "mp" :> (IF I >= 6 THEN 10 ELSE 0),
          opt |-> "race" :> H @@ "occupation" :> I,
          cardTypeIndices |-> <<7, 8>>,
          cardTypeExplanationKey |-> "explanationCardTypeMethod1Char",
          hpKey |-> "explanationHpMethod1",
          maps |-> "race" :> Mapping(<<7>>, "explanationRaceMethod1")
                @@ occMap
                @@ "stats.st" :> Mapping(stIndices, "explanationStMethod1Char")
                @@ "stats.df" :> Mapping(dfIndices, "explanationDfMethod1Char")
                @@ "stats.pp" :> Mapping(<<>>, "explanationPpMethod1")
                @@ "stats.mp" :> Mapping(<<8>>, "explanationMpMethod1")]
    [] H = 5 \/ H = 6 ->
         [cardType |-> "Weapon",
          hp |-> 0, st |-> baseSt + stAddition, df |-> 0,
          statsOpt |-> <<>>,
          opt |-> "occupation" :> I @@ "isSingleUse" :> (H = 5),
          cardTypeIndices |-> <<7>>,
          cardTypeExplanationKey |-> "explanationCardTypeMethod1Weapon",
          hpKey |-> "explanationHpMethod1WeaponArmour",
          maps |-> occMap
                @@ "isSingleUse" :> Mapping(<<7>>, "explanationSingleUseMethod1")
                @@ "stats.st" :> Mapping(stIndices, "explanationStMethod1Weapon")
                @@ "stats.df" :> Mapping(dfIndices, "explanationDfMethod1Weapon")]
    [] H = 7 \/ H = 8 ->
         [cardType |-> "Armour",
          hp |-> 0, st |-> 0, df |-> baseDf + dfAddition,
          statsOpt |-> <<>>,
          opt |-> "occupation" :> I @@ "isSingleUse" :> (H = 8),
          cardTypeIndices |-> <<7>>,
          cardTypeExplanationKey |-> "explanationCardTypeMethod1Armour",
          hpKey |-> "explanationHpMethod1WeaponArmour",
          maps |-> occMap
                @@ "isSingleUse" :> Mapping(<<7>>, "explanationSingleUseMethod1")
                @@ "stats.df" :> Mapping(dfIndices, "explanationDfMethod1Armour")
                @@ "stats.st" :> Mapping(stIndices, "explanationStMethod1Armour")]
    [] H = 9 ->
         LET sub ==
               CASE I >= 0 /\ I <= 4 ->
                      [powerUpType |-> "Health", hp |-> hp, statsOpt |-> <<>>,
                       hpKey |-> "explanationHpMethod1",
                       stKey |-> "explanationStMethod1HealthPowerUp",
                       dfKey |-> "explanationDfMethod1HealthPowerUp",
                       maps |-> <<>>]
                 [] I = 5 \/ I = 6 ->
                      [powerUpType |-> IF I = 5 THEN "VagueNews" ELSE "AccurateNews",
                       hp |-> 0, statsOpt |-> <<>>,
                       hpKey |-> "explanationHpMethod1NewsPowerUp",
                       stKey |-> "explanationStMethod1NewsPowerUp",
                       dfKey |-> "explanationDfMethod1NewsPowerUp",
                       maps |-> <<>>]
                 [] I = 7 ->
                      [powerUpType |-> "Herb", hp |-> 0,
                       statsOpt |-> "pp" :> (D_ * 100 + E),
                       hpKey |-> "explanationHpMethod1HerbPowerUp",
                       stKey |-> "explanationStMethod1HerbPowerUp",
                       dfKey |-> "explanationDfMethod1HerbPowerUp",
                       maps |-> "stats.pp" :> Mapping(<<3, 4>>, "explanationPpMethod1Herb")]
                 [] OTHER ->
                      [powerUpType |-> "Magic", hp |-> 0,
                       statsOpt |-> "mp" :> (F * 100 + G),
                       hpKey |-> "explanationHpMethod1MagicPowerUp",
                       stKey |-> "explanationStMethod1MagicPowerUp",
                       dfKey |-> "explanationDfMethod1MagicPowerUp",
                       maps |-> "stats.mp" :> Mapping(<<5, 6>>, "explanationMpMethod1Magic")]
         IN  [cardType |-> "PowerUp",
              hp |-> sub.hp, st |-> 0, df |-> 0,
              statsOpt |-> sub.statsOpt,
              opt |-> "powerUpType" :> sub.powerUpType,
              cardTypeIndices |-> <<7, 8>>,
              cardTypeExplanationKey |-> "explanationCardTypeMethod1PowerUp",
              hpKey |-> sub.hpKey,
              maps |-> sub.maps
                    @@ "stats.st" :> Mapping(<<3, 4>>, sub.stKey)
                    @@ "stats.df" :> Mapping(<<5, 6>>, sub.dfKey)
                    @@ "powerUpType" :> Mapping(<<8>>, "explanationPowerUpTypeMethod1")]
    [] OTHER ->
         [cardType |-> "Unknown",
          hp |-> hp, st |-> baseSt, df |-> baseDf,
          statsOpt |-> <<>>, opt |-> <<>>,
          cardTypeIndices |-> <<7>>,
          cardTypeExplanationKey |-> "",
          hpKey |-> "explanationHpMethod1",
          maps |-> <<>>]

\* The branch of parseMethod1 on H (and on I for a power-up): the card
\* fields and the digit mappings that the branch writes.
method1Branch(A, B, C, D_, E, F, G, H, I, stAddition, dfAddition, stIndices, dfIndices) ==
  LET hp == A * 10000 + B * 1000 + C * 100
      baseSt == D_ * 1000 + E * 100
      baseDf == F * 1000 + G * 100
      occMap == "occupation" :> Mapping(<<8>>, "explanationOccupationMethod1")
  IN
  CASE H >= 0 /\ H <= 4 ->
         [cardType |-> IF I >= 7 THEN "Wizard" ELSE "Soldier",
          hp |-> hp, st |-> baseSt + stAddition, df |-> baseDf + dfAddition,
          statsOpt |-> "pp" :> 5 @@ "mp" :> (IF I >= 6 THEN 10 ELSE 0),
          opt |-> "race" :> H @@ "occupation" :> I,
          cardTypeIndices |-> <<7, 8>>,
          cardTypeExplanationKey |-> "explanationCardTypeMethod1Char",
          hpKey |-> "explanationHpMethod1",
          maps |-> "race" :> Mapping(<<7>>, "explanationRaceMethod1")
                @@ occMap
                @@ "stats.st" :> Mapping(stIndices, "explanationStMethod1Char")
                @@ "stats.df" :> Mapping(dfIndices, "explanationDfMethod1Char")
                @@ "stats.pp" :> Mapping(<<>>, "explanationPpMethod1")
                @@ "stats.mp" :> Mapping(<<8>>, "explanationMpMethod1")]
    [] H = 5 \/ H = 6 ->
         [cardType |-> "Weapon",
          hp |-> 0, st |-> baseSt + stAddition, df |-> 0,
          statsOpt |-> <<>>,
          opt |-> "occupation" :> I @@ "isSingleUse" :> (H = 5),
          cardTypeIndices |-> <<7>>,
          cardTypeExplanationKey |-> "explanationCardTypeMethod1Weapon",
          hpKey |-> "explanationHpMethod1WeaponArmour",
          maps |-> occMap
                @@ "isSingleUse" :> Mapping(<<7>>, "explanationSingleUseMethod1")
                @@ "stats.st" :> Mapping(stIndices, "explanationStMethod1Weapon")
                @@ "stats.df" :> Mapping(dfIndices, "explanationDfMethod1Weapon")]
    [] H = 7 \/ H = 8 ->
         [cardType |-> "Armour",
          hp |-> 0, st |-> 0, df |-> baseDf + dfAddition,
          statsOpt |-> <<>>,
          opt |-> "occupation" :> I @@ "isSingleUse" :> (H = 7),
          cardTypeIndices |-> <<7>>,
          cardTypeExplanationKey |-> "explanationCardTypeMethod1Armour",
          hpKey |-> "explanationHpMethod1WeaponArmour",
          maps |-> occMap
                @@ "isSingleUse" :> Mapping(<<7>>, "explanationSingleUseMethod1")
                @@ "stats.df" :> Mapping(dfIndices, "explanationDfMethod1Armour")
                @@ "stats.st" :> Mapping(stIndices, "explanationStMethod1Armour")]
    [] H = 9 ->
         LET sub ==
               CASE I >= 0 /\ I <= 4 ->
                      [powerUpType |-> "Health", hp |-> hp, statsOpt |-> <<>>,
                       hpKey |-> "explanationHpMethod1",
                       stKey |-> "explanationStMethod1HealthPowerUp",
                       dfKey |-> "explanationDfMethod1HealthPowerUp",
                       maps |-> <<>>]
                 [] I = 5 \/ I = 6 ->
                      [powerUpType |-> IF I = 5 THEN "VagueNews" ELSE "AccurateNews",
                       hp |-> 0, statsOpt |-> <<>>,
                       hpKey |-> "explanationHpMethod1NewsPowerUp",
                       stKey |-> "explanationStMethod1NewsPowerUp",
                       dfKey |-> "explanationDfMethod1NewsPowerUp",
                       maps |-> <<>>]
                 [] I = 7 ->
                      [powerUpType |-> "Herb", hp |-> 0,
                       statsOpt |-> "pp" :> (D_ * 100 + E),
                       hpKey |-> "explanationHpMethod1HerbPowerUp",
                       stKey |-> "explanationStMethod1HerbPowerUp",
                       dfKey |-> "explanationDfMethod1HerbPowerUp",
                       maps |-> "stats.pp" :> Mapping(<<3, 4>>, "explanationPpMethod1Herb")]
                 [] OTHER ->
                      [powerUpType |-> "Magic", hp |-> 0,
                       statsOpt |-> "mp" :> (F * 100 + G),
                       hpKey |-> "explanationHpMethod1MagicPowerUp",
                       stKey |-> "explanationStMethod1MagicPowerUp",
                       dfKey |-> "explanationDfMethod1MagicPowerUp",
                       maps |-> "stats.mp" :> Mapping(<<5, 6>>, "explanationMpMethod1Magic")]
         IN  [cardType |-> "PowerUp",
              hp |-> sub.hp, st |-> 0, df |-> 0,
              statsOpt |-> sub.statsOpt,
              opt |-> "powerUpType" :> sub.powerUpType,
              cardTypeIndices |-> <<7, 8>>,
              cardTypeExplanationKey |-> "explanationCardTypeMethod1PowerUp",
              hpKey |-> sub.hpKey,
              maps |-> sub.maps
                    @@ "stats.st" :> Mapping(<<3, 4>>, sub.stKey)
                    @@ "stats.df" :> Mapping(<<5, 6>>, sub.dfKey)
                    @@ "powerUpType" :> Mapping(<<8>>, "explanationPowerUpTypeMethod1")]
    [] OTHER ->
         [cardType |-> "Unknown",
          hp |-> hp, st |-> baseSt, df |-> baseDf,
          statsOpt |-> <<>>, opt |-> <<>>,
          cardTypeIndices |-> <<7>>,
          cardTypeExplanationKey |-> "",
          hpKey |-> "explanationHpMethod1",
          maps |-> <<>>]

\* parseMethod1 with K taken as the hundreds of the flag.
parseMethod1FlagHundreds(barcode, reasonKey, reasonContext, initialDigitMappings) ==
  LET A == safeParseInt(charAt(barcode, 0))
      B == safeParseInt(charAt(barcode, 1))
      C == safeParseInt(charAt(barcode, 2))
      D_ == safeParseInt(charAt(barcode, 3))
      E == safeParseInt(charAt(barcode, 4))
      F == safeParseInt(charAt(barcode, 5))
      G == safeParseInt(charAt(barcode, 6))
      H == safeParseInt(charAt(barcode, 7))
      I == safeParseInt(charAt(barcode, 8))
      J == safeParseInt(charAt(barcode, 9))
      K == safeParseInt(charAt(barcode, 10))
      L == safeParseInt(charAt(barcode, 11))
      dx == J
      flag == K * 100 + L
      stBonus == A > 2 /\ (H = 0 \/ H = 2)
      dfBonus == A > 2 /\ (H = 1 \/ H = 2)
      stAddition == IF stBonus THEN 10000 ELSE 0
      dfAddition == IF dfBonus THEN 10000 ELSE 0
      stIndices == IF stBonus THEN <<3, 4, 7>> ELSE <<3, 4>>
      dfIndices == IF dfBonus THEN <<5, 6, 7>> ELSE <<5, 6>>
      br == method1Branch(A, B, C, D_, E, F, G, H, I,
                          stAddition, dfAddition, stIndices, dfIndices)
      early == "stats.hp" :> Mapping(<<0, 1, 2>>, br.hpKey)
            @@ "stats.st" :> Mapping(<<3, 4>>, "explanationStBaseMethod1")
            @@ "stats.df" :> Mapping(<<5, 6>>, "explanationDfBaseMethod1")
            @@ "stats.dx" :> Mapping(<<9>>, "explanationDxMethod1")
            @@ "flag" :> Mapping(<<10, 11>>, "explanationFlagMethod1")
      dm1 == spread(spread(initialDigitMappings, early), br.maps)
      isHero == isHeroMethod1(flag, br.hp, br.st, br.df)
      heroCheckIndices ==
        unique(dm1["flag"].indices \o dm1["stats.hp"].indices
               \o dm1["stats.st"].indices \o dm1["stats.df"].indices)
      digitMappings ==
        spread(dm1,
               "cardType" :> Mapping(br.cardTypeIndices, br.cardTypeExplanationKey)
            @@ "isHero" :> Mapping(heroCheckIndices, "explanationIsHeroMethod1"))
      finalStats ==
        spread([hp |-> clamp(br.hp), st |-> clamp(br.st), df |-> clamp(br.df), dx |-> dx],
               br.statsOpt)
  IN  spread([methodUsed |-> "1", reasonKey |-> reasonKey,
              reasonContext |-> reasonContext,
              cardType |-> br.cardType, stats |-> finalStats,
              flag |-> flag, isHero |-> isHero,
              digitMappings |-> digitMappings],
             br.opt)

\* parseMethod1 with the bonuses granted from A = 2 (A >= 2 for A > 2).
parseMethod1BonusFromTwo(barcode, reasonKey, reasonContext, initialDigitMappings) ==
  LET A == safeParseInt(charAt(barcode, 0))
      B == safeParseInt(charAt(barcode, 1))
      C == safeParseInt(charAt(barcode, 2))
      D_ == safeParseInt(charAt(barcode, 3))
      E == safeParseInt(charAt(barcode, 4))
      F == safeParseInt(charAt(barcode, 5))
      G == safeParseInt(charAt(barcode, 6))
      H == safeParseInt(charAt(barcode, 7))
      I == safeParseInt(charAt(barcode, 8))
      J == safeParseInt(charAt(barcode, 9))
      K == safeParseInt(charAt(barcode, 10))
      L == safeParseInt(charAt(barcode, 11))
      dx == J
      flag == K * 10 + L
      stBonus == A >= 2 /\ (H = 0 \/ H = 2)
      dfBonus == A >= 2 /\ (H = 1 \/ H = 2)
      stAddition == IF stBonus THEN 10000 ELSE 0
      dfAddition == IF dfBonus THEN 10000 ELSE 0
      stIndices == IF stBonus THEN <<3, 4, 7>> ELSE <<3, 4>>
      dfIndices == IF dfBonus THEN <<5, 6, 7>> ELSE <<5, 6>>
      br == method1Branch(A, B, C, D_, E, F, G, H, I,
                          stAddition, dfAddition, stIndices, dfIndices)
      early == "stats.hp" :> Mapping(<<0, 1, 2>>, br.hpKey)
            @@ "stats.st" :> Mapping(<<3, 4>>, "explanationStBaseMethod1")
            @@ "stats.df" :> Mapping(<<5, 6>>, "explanationDfBaseMethod1")
            @@ "stats.dx" :> Mapping(<<9>>, "explanationDxMethod1")
            @@ "flag" :> Mapping(<<10, 11>>, "explanationFlagMethod1")
      dm1 == spread(spread(initialDigitMappings, early), br.maps)
      isHero == isHeroMethod1(flag, br.hp, br.st, br.df)
      heroCheckIndices ==
        unique(dm1["flag"].indices \o dm1["stats.hp"].indices
               \o dm1["stats.st"].indices \o dm1["stats.df"].indices)
      digitMappings ==
        spread(dm1,
               "cardType" :> Mapping(br.cardTypeIndices, br.cardTypeExplanationKey)
            @@ "isHero" :> Mapping(heroCheckIndices, "explanationIsHeroMethod1"))
      finalStats ==
        spread([hp |-> clamp(br.hp), st |-> clamp(br.st), df |-> clamp(br.df), dx |-> dx],
               br.statsOpt)
  IN  spread([methodUsed |-> "1", reasonKey |-> reasonKey,
              reasonContext |-> reasonContext,
              cardType |-> br.cardType, stats |-> finalStats,
              flag |-> flag, isHero |-> isHero,
              digitMappings |-> digitMappings],
             br.opt)

parseMethod1(barcode, reasonKey, reasonContext, initialDigitMappings) ==
  LET A == safeParseInt(charAt(barcode, 0))
      B == safeParseInt(charAt(barcode, 1))
      C == safeParseInt(charAt(barcode, 2))
      D_ == safeParseInt(charAt(barcode, 3))
      E == safeParseInt(charAt(barcode, 4))
      F == safeParseInt(charAt(barcode, 5))
      G == safeParseInt(charAt(barcode, 6))
      H == safeParseInt(charAt(barcode, 7))
      I == safeParseInt(charAt(barcode, 8))
      J == safeParseInt(charAt(barcode, 9))
      K == safeParseInt(charAt(barcode, 10))
      L == safeParseInt(charAt(barcode, 11))
      dx == J
      flag == K * 10 + L
      stBonus == A > 2 /\ (H = 0 \/ H = 2)
      dfBonus == A > 2 /\ (H = 1 \/ H = 2)
      stAddition == IF stBonus THEN 10000 ELSE 0
      dfAddition == IF dfBonus THEN 10000 ELSE 0
      stIndices == IF stBonus THEN <<3, 4, 7>> ELSE <<3, 4>>
      dfIndices == IF dfBonus THEN <<5, 6, 7>> ELSE <<5, 6>>
      br == method1Branch(A, B, C, D_, E, F, G, H, I,
                          stAddition, dfAddition, stIndices, dfIndices)
      early == "stats.hp" :> Mapping(<<0, 1, 2>>, br.hpKey)
            @@ "stats.st" :> Mapping(<<3, 4>>, "explanationStBaseMethod1")
            @@ "stats.df" :> Mapping(<<5, 6>>, "explanationDfBaseMethod1")
            @@ "stats.dx" :> Mapping(<<9>>, "explanationDxMethod1")
            @@ "flag" :> Mapping(<<10, 11>>, "explanationFlagMethod1")
      dm1 == spread(spread(initialDigitMappings, early), br.maps)
      isHero == isHeroMethod1(flag, br.hp, br.st, br.df)
      heroCheckIndices ==
        unique(dm1["flag"].indices \o dm1["stats.hp"].indices
               \o dm1["stats.st"].indices \o dm1["stats.df"].indices)
      digitMappings ==
        spread(dm1,
               "cardType" :> Mapping(br.cardTypeIndices, br.cardTypeExplanationKey)
            @@ "isHero" :> Mapping(heroCheckIndices, "explanationIsHeroMethod1"))
      finalStats ==
        spread([hp |-> clamp(br.hp), st |-> clamp(br.st), df |-> clamp(br.df), dx |-> dx],
               br.statsOpt)
  IN  spread([methodUsed |-> "1", reasonKey |-> reasonKey,
              reasonContext |-> reasonContext,
              cardType |-> br.cardType, stats |-> finalStats,
              flag |-> flag, isHero |-> isHero,
              digitMappings |-> digitMappings],
             br.opt)

(***************************************************************************)
(* Method 2                                                                *)
(***************************************************************************)
\* The Soldier test written T < 4: no branch is left for T = 4.
method2CardTypeBelowFour(T) ==
  IF T < 4 THEN "Soldier"
  ELSE IF T = 5 \/ T = 6 THEN "Weapon"
  ELSE IF T = 7 \/ T = 8 THEN "Armour"
  ELSE IF T > 8 THEN "PowerUp"
  ELSE "Unknown"

\* The Armour test written T >= 7: T = 9 is taken for an Armour.
method2CardTypeArmourFromSeven(T) ==
  IF T < 5 THEN "Soldier"
  ELSE IF T = 5 \/ T = 6 THEN "Weapon"
  ELSE IF T >= 7 THEN "Armour"
  ELSE IF T > 8 THEN "PowerUp"
  ELSE "Unknown"

\* The last test written T > 9: no branch is left for T = 9.
method2CardTypeOffByOne(T) ==
  IF T < 5 THEN "Soldier"
  ELSE IF T = 5 \/ T = 6 THEN "Weapon"
  ELSE IF T = 7 \/ T = 8 THEN "Armour"
  ELSE IF T > 9 THEN "PowerUp"
  ELSE "Unknown"

\* The tests of the branch of parseMethod2 on T.
method2CardType(T) ==
  IF T < 5 THEN "Soldier"
  ELSE IF T = 5 \/ T = 6 THEN "Weapon"
  ELSE IF T = 7 \/ T = 8 THEN "Armour"
  ELSE IF T > 8 THEN "PowerUp"
  ELSE "Unknown"

\* The branch with (R + 5) % 10 + 2 of the Soldier st read as (R + 5) % (10 + 2).
method2BranchStModTwelve(P, Q, R, S, T, pIdx, qIdx, rIdx, sIdx, tIdx) ==
  CASE method2CardType(T) = "Soldier" ->
         [cardType |-> "Soldier",
          hp |-> (1000 * (10 * (S \div 2) + R)) + (100 * Q),
          st |-> 1000 * ((R + 5) % 12) + 100 * ((Q + 5) % 10),
          df |-> 1000 * ((Q + 7) % 10) + 100 * ((P + 7) % 10),
          hero |-> TRUE, opt |-> <<>>,
          cardTypeExplanationKey |-> "explanationCardTypeMethod2Hero",
          maps |-> "stats.hp" :> Mapping(<<qIdx, rIdx, sIdx>>, "explanationHpMethod2Hero")
                @@ "stats.st" :> Mapping(<<qIdx, rIdx>>, "explanationStMethod2Hero")
                @@ "stats.df" :> Mapping(<<pIdx, qIdx>>, "explanationDfMethod2Hero")
                @@ "flag" :> Mapping(<<tIdx>>, "explanationFlagMethod2Hero")
                @@ "isHero" :> Mapping(<<tIdx>>, "explanationIsHeroMethod2")]
    [] method2CardType(T) = "Weapon" ->
         [cardType |-> "Weapon",
          hp |-> 0,
          st |-> 1000 * (1 + (R \div 4)) + 100 * ((Q + 5) % 10),
          df |-> 0,
          hero |-> FALSE, opt |-> "isSingleUse" :> (T = 5),
          cardTypeExplanationKey |-> "explanationCardTypeMethod2Weapon",
          maps |-> "stats.st" :> Mapping(<<qIdx, rIdx>>, "explanationStMethod2Weapon")
                @@ "isSingleUse" :> Mapping(<<tIdx>>, "explanationSingleUseMethod2Weapon")
                @@ "stats.hp" :> Mapping(<<>>, "explanationHpMethod2Weapon")
                @@ "stats.df" :> Mapping(<<>>, "explanationDfMethod2Weapon")]
    [] method2CardType(T) = "Armour" ->
         [cardType |-> "Armour",
          hp |-> 0, st |-> 0,
          df |-> 1000 * (Q \div 4) + 100 * ((P + 7) % 10),
          hero |-> FALSE, opt |-> "isSingleUse" :> (T = 7),
          cardTypeExplanationKey |-> "explanationCardTypeMethod2Armour",
          maps |-> "stats.df" :> Mapping(<<pIdx, qIdx>>, "explanationDfMethod2Armour")
                @@ "isSingleUse" :> Mapping(<<tIdx>>, "explanationSingleUseMethod2Armour")
                @@ "stats.hp" :> Mapping(<<>>, "explanationHpMethod2Armour")
                @@ "stats.st" :> Mapping(<<>>, "explanationStMethod2Armour")]
    [] method2CardType(T) = "PowerUp" ->
         [cardType |-> "PowerUp",
          hp |-> 10000 * (S \div 8) + 1000 * R + 100 * Q,
          st |-> 0, df |-> 0,
          hero |-> FALSE, opt |-> "powerUpType" :> "Health",
          cardTypeExplanationKey |-> "explanationCardTypeMethod2PowerUp",
          maps |-> "powerUpType" :> Mapping(<<tIdx>>, "explanationPowerUpTypeMethod2")
                @@ "stats.hp" :> Mapping(<<qIdx, rIdx, sIdx>>, "explanationHpMethod2PowerUp")
                @@ "stats.st" :> Mapping(<<>>, "explanationStMethod2PowerUp")
                @@ "stats.df" :> Mapping(<<>>, "explanationDfMethod2PowerUp")]
    [] OTHER ->
         [cardType |-> "Unknown",
          hp |-> 0, st |-> 0, df |-> 0,
          hero |-> FALSE, opt |-> <<>>,
          cardTypeExplanationKey |-> "",
          maps |-> <<>>]

\* The branch with the Weapon st computed without the leading 1 +.
method2BranchWeaponSt(P, Q, R, S, T, pIdx, qIdx, rIdx, sIdx, tIdx) ==
  CASE method2CardType(T) = "Soldier" ->
         [cardType |-> "Soldier",
          hp |-> (1000 * (10 * (S \div 2) + R)) + (100 * Q),
          st |-> 1000 * (((R + 5) % 10) + 2) + 100 * ((Q + 5) % 10),
          df |-> 1000 * ((Q + 7) % 10) + 100 * ((P + 7) % 10),
          hero |-> TRUE, opt |-> <<>>,
          cardTypeExplanationKey |-> "explanationCardTypeMethod2Hero",
          maps |-> "stats.hp" :> Mapping(<<qIdx, rIdx, sIdx>>, "explanationHpMethod2Hero")
                @@ "stats.st" :> Mapping(<<qIdx, rIdx>>, "explanationStMethod2Hero")
                @@ "stats.df" :> Mapping(<<pIdx, qIdx>>, "explanationDfMethod2Hero")
                @@ "flag" :> Mapping(<<tIdx>>, "explanationFlagMethod2Hero")
                @@ "isHero" :> Mapping(<<tIdx>>, "explanationIsHeroMethod2")]
    [] method2CardType(T) = "Weapon" ->
         [cardType |-> "Weapon",
          hp |-> 0,
          st |-> 1000 * (R \div 4) + 100 * ((Q + 5) % 10),
          df |-> 0,
          hero |-> FALSE, opt |-> "isSingleUse" :> (T = 5),
          cardTypeExplanationKey |-> "explanationCardTypeMethod2Weapon",
          maps |-> "stats.st" :> Mapping(<<qIdx, rIdx>>, "explanationStMethod2Weapon")
                @@ "isSingleUse" :> Mapping(<<tIdx>>, "explanationSingleUseMethod2Weapon")
                @@ "stats.hp" :> Mapping(<<>>, "explanationHpMethod2Weapon")
                @@ "stats.df" :> Mapping(<<>>, "explanationDfMethod2Weapon")]
    [] method2CardType(T) = "Armour" ->
         [cardType |-> "Armour",
          hp |-> 0, st |-> 0,
          df |-> 1000 * (Q \div 4) + 100 * ((P + 7) % 10),
          hero |-> FALSE, opt |-> "isSingleUse" :> (T = 7),
          cardTypeExplanationKey |-> "explanationCardTypeMethod2Armour",
          maps |-> "stats.df" :> Mapping(<<pIdx, qIdx>>, "explanationDfMethod2Armour")
                @@ "isSingleUse" :> Mapping(<<tIdx>>, "explanationSingleUseMethod2Armour")
                @@ "stats.hp" :> Mapping(<<>>, "explanationHpMethod2Armour")
                @@ "stats.st" :> Mapping(<<>>, "explanationStMethod2Armour")]
    [] method2CardType(T) = "PowerUp" ->
         [cardType |-> "PowerUp",
          hp |-> 10000 * (S \div 8) + 1000 * R + 100 * Q,
          st |-> 0, df |-> 0,
          hero |-> FALSE, opt |-> "powerUpType" :> "Health",
          cardTypeExplanationKey |-> "explanationCardTypeMethod2PowerUp",
          maps |-> "powerUpType" :> Mapping(<<tIdx>>, "explanationPowerUpTypeMethod2")
                @@ "stats.hp" :> Mapping(<<qIdx, rIdx, sIdx>>, "explanationHpMethod2PowerUp")
                @@ "stats.st" :> Mapping(<<>>, "explanationStMethod2PowerUp")
                @@ "stats.df" :> Mapping(<<>>, "explanationDfMethod2PowerUp")]
    [] OTHER ->
         [cardType |-> "Unknown",
          hp |-> 0, st |-> 0, df |-> 0,
          hero |-> FALSE, opt |-> <<>>,
          cardTypeExplanationKey |-> "",
          maps |-> <<>>]

\* The branch of parseMethod2 on T.
method2Branch(P, Q, R, S, T, pIdx, qIdx, rIdx, sIdx, tIdx) ==
  CASE method2CardType(T) = "Soldier" ->
         [cardType |-> "Soldier",
          hp |-> (1000 * (10 * (S \div 2) + R)) + (100 * Q),
          st |-> 1000 * (((R + 5) % 10) + 2) + 100 * ((Q + 5) % 10),
          df |-> 1000 * ((Q + 7) % 10) + 100 * ((P + 7) % 10),
          hero |-> TRUE, opt |-> <<>>,
          cardTypeExplanationKey |-> "explanationCardTypeMethod2Hero",
          maps |-> "stats.hp" :> Mapping(<<qIdx, rIdx, sIdx>>, "explanationHpMethod2Hero")
                @@ "stats.st" :> Mapping(<<qIdx, rIdx>>, "explanationStMethod2Hero")
                @@ "stats.df" :> Mapping(<<pIdx, qIdx>>, "explanationDfMethod2Hero")
                @@ "flag" :> Mapping(<<tIdx>>, "explanationFlagMethod2Hero")
                @@ "isHero" :> Mapping(<<tIdx>>, "explanationIsHeroMethod2")]
    [] method2CardType(T) = "Weapon" ->
         [cardType |-> "Weapon",
          hp |-> 0,
          st |-> 1000 * (1 + (R \div 4)) + 100 * ((Q + 5) % 10),
          df |-> 0,
          hero |-> FALSE, opt |-> "isSingleUse" :> (T = 5),
          cardTypeExplanationKey |-> "explanationCardTypeMethod2Weapon",
          maps |-> "stats.st" :> Mapping(<<qIdx, rIdx>>, "explanationStMethod2Weapon")
                @@ "isSingleUse" :> Mapping(<<tIdx>>, "explanationSingleUseMethod2Weapon")
                @@ "stats.hp" :> Mapping(<<>>, "explanationHpMethod2Weapon")
                @@ "stats.df" :> Mapping(<<>>, "explanationDfMethod2Weapon")]
    [] method2CardType(T) = "Armour" ->
         [cardType |-> "Armour",
          hp |-> 0, st |-> 0,
          df |-> 1000 * (Q \div 4) + 100 * ((P + 7) % 10),
          hero |-> FALSE, opt |-> "isSingleUse" :> (T = 7),
          cardTypeExplanationKey |-> "explanationCardTypeMethod2Armour",
          maps |-> "stats.df" :> Mapping(<<pIdx, qIdx>>, "explanationDfMethod2Armour")
                @@ "isSingleUse" :> Mapping(<<tIdx>>, "explanationSingleUseMethod2Armour")
                @@ "stats.hp" :> Mapping(<<>>, "explanationHpMethod2Armour")
                @@ "stats.st" :> Mapping(<<>>, "explanationStMethod2Armour")]
    [] method2CardType(T) = "PowerUp" ->
         [cardType |-> "PowerUp",
          hp |-> 10000 * (S \div 8) + 1000 * R + 100 * Q,
          st |-> 0, df |-> 0,
          hero |-> FALSE, opt |-> "powerUpType" :> "Health",
          cardTypeExplanationKey |-> "explanationCardTypeMethod2PowerUp",
          maps |-> "powerUpType" :> Mapping(<<tIdx>>, "explanationPowerUpTypeMethod2")
                @@ "stats.hp" :> Mapping(<<qIdx, rIdx, sIdx>>, "explanationHpMethod2PowerUp")
                @@ "stats.st" :> Mapping(<<>>, "explanationStMethod2PowerUp")
                @@ "stats.df" :> Mapping(<<>>, "explanationDfMethod2PowerUp")]
    [] OTHER ->
         [cardType |-> "Unknown",
          hp |-> 0, st |-> 0, df |-> 0,
          hero |-> FALSE, opt |-> <<>>,
          cardTypeExplanationKey |-> "",
          maps |-> <<>>]

\* parseMethod2 with isHero decided by T <= 5.
parseMethod2HeroUpToFive(barcode, reasonKey, reasonContext, initialDigitMappings) ==
  LET len == Len(barcode)
      pIdx == len - 6
      qIdx == len - 5
      rIdx == len - 4
      sIdx == len - 3
      tIdx == len - 2
      P == safeParseInt(charAt(barcode, pIdx))
      Q == safeParseInt(charAt(barcode, qIdx))
      R == safeParseInt(charAt(barcode, rIdx))
      S == safeParseInt(charAt(barcode, sIdx))
      T == safeParseInt(charAt(barcode, tIdx))
      dx == 0
      originalFlag == 10 * P + R
      adjusted == originalFlag > 29 /\ T >= 5
      br == method2Branch(P, Q, R, S, T, pIdx, qIdx, rIdx, sIdx, tIdx)
      flag == IF br.hero THEN 50 ELSE IF adjusted THEN 0 ELSE originalFlag
      early == "stats.dx" :> Mapping(<<>>, "explanationDxMethod2")
            @@ "flag" :> (IF adjusted
                          THEN Mapping(<<pIdx, rIdx, tIdx>>, "explanationFlagMethod2Adjusted")
                          ELSE Mapping(<<pIdx, rIdx>>, "explanationFlagMethod2"))
      digitMappings ==
        spread(spread(spread(initialDigitMappings, early), br.maps),
               "cardType" :> Mapping(<<tIdx>>, br.cardTypeExplanationKey))
  IN  spread(spread([methodUsed |-> "2", reasonKey |-> reasonKey,
                     cardType |-> br.cardType,
                     stats |-> [hp |-> br.hp, st |-> br.st, df |-> br.df, dx |-> dx],
                     flag |-> flag, isHero |-> T <= 5,
                     digitMappings |-> digitMappings],
                    Opt("reasonContext", reasonContext # NoObject, reasonContext)),
             br.opt)

\* parseMethod2 with dx read from index 9 as in Method 1.
parseMethod2DxFromJ(barcode, reasonKey, reasonContext, initialDigitMappings) ==
  LET len == Len(barcode)
      pIdx == len - 6
      qIdx == len - 5
      rIdx == len - 4
      sIdx == len - 3
      tIdx == len - 2
      P == safeParseInt(charAt(barcode, pIdx))
      Q == safeParseInt(charAt(barcode, qIdx))
      R == safeParseInt(charAt(barcode, rIdx))
      S == safeParseInt(charAt(barcode, sIdx))
      T == safeParseInt(charAt(barcode, tIdx))
      dx == safeParseInt(charAt(barcode, 9))
      originalFlag == 10 * P + R
      adjusted == originalFlag > 29 /\ T >= 5
      br == method2Branch(P, Q, R, S, T, pIdx, qIdx, rIdx, sIdx, tIdx)
      flag == IF br.hero THEN 50 ELSE IF adjusted THEN 0 ELSE originalFlag
      early == "stats.dx" :> Mapping(<<>>, "explanationDxMethod2")
            @@ "flag" :> (IF adjusted
                          THEN Mapping(<<pIdx, rIdx, tIdx>>, "explanationFlagMethod2Adjusted")
                          ELSE Mapping(<<pIdx, rIdx>>, "explanationFlagMethod2"))
      digitMappings ==
        spread(spread(spread(initialDigitMappings, early), br.maps),
               "cardType" :> Mapping(<<tIdx>>, br.cardTypeExplanationKey))
  IN  spread(spread([methodUsed |-> "2", reasonKey |-> reasonKey,
                     cardType |-> br.cardType,
                     stats |-> [hp |-> br.hp, st |-> br.st, df |-> br.df, dx |-> dx],
                     flag |-> flag, isHero |-> br.hero,
                     digitMappings |-> digitMappings],
                    Opt("reasonContext", reasonContext # NoObject, reasonContext)),
             br.opt)

\* parseMethod2 with the flag reset only for T > 5.
parseMethod2AdjustAboveFive(barcode, reasonKey, reasonContext, initialDigitMappings) ==
  LET len == Len(barcode)
      pIdx == len - 6
      qIdx == len - 5
      rIdx == len - 4
      sIdx == len - 3
      tIdx == len - 2
      P == safeParseInt(charAt(barcode, pIdx))
      Q == safeParseInt(charAt(barcode, qIdx))
      R == safeParseInt(charAt(barcode, rIdx))
      S == safeParseInt(charAt(barcode, sIdx))
      T == safeParseInt(charAt(barcode, tIdx))
      dx == 0
      originalFlag == 10 * P + R
      adjusted == originalFlag > 29 /\ T > 5
      br == method2Branch(P, Q, R, S, T, pIdx, qIdx, rIdx, sIdx, tIdx)
      flag == IF br.hero THEN 50 ELSE IF adjusted THEN 0 ELSE originalFlag
      early == "stats.dx" :> Mapping(<<>>, "explanationDxMethod2")
            @@ "flag" :> (IF adjusted
                          THEN Mapping(<<pIdx, rIdx, tIdx>>, "explanationFlagMethod2Adjusted")
                          ELSE Mapping(<<pIdx, rIdx>>, "explanationFlagMethod2"))
      digitMappings ==
        spread(spread(spread(initialDigitMappings, early), br.maps),
               "cardType" :> Mapping(<<tIdx>>, br.cardTypeExplanationKey))
  IN  spread(spread([methodUsed |-> "2", reasonKey |-> reasonKey,
                     cardType |-> br.cardType,
                     stats |-> [hp |-> br.hp, st |-> br.st, df |-> br.df, dx |-> dx],
                     flag |-> flag, isHero |-> br.hero,
                     digitMappings |-> digitMappings],
                    Opt("reasonContext", reasonContext # NoObject, reasonContext)),
             br.opt)

\* Method 2 with S read from the last character of the barcode.
parseMethod2SFromLast(barcode, reasonKey, reasonContext, initialDigitMappings) ==
  LET len == Len(barcode)
      pIdx == len - 6
      qIdx == len - 5
      rIdx == len - 4
      sIdx == len - 3
      tIdx == len - 2
      P == safeParseInt(charAt(barcode, pIdx))
      Q == safeParseInt(charAt(barcode, qIdx))
      R == safeParseInt(charAt(barcode, rIdx))
      S == safeParseInt(charAt(barcode, len - 1))
      T == safeParseInt(charAt(barcode, tIdx))
      dx == 0
      originalFlag == 10 * P + R
      adjusted == originalFlag > 29 /\ T >= 5
      br == method2Branch(P, Q, R, S, T, pIdx, qIdx, rIdx, sIdx, tIdx)
      flag == IF br.hero THEN 50 ELSE IF adjusted THEN 0 ELSE originalFlag
      early == "stats.dx" :> Mapping(<<>>, "explanationDxMethod2")
            @@ "flag" :> (IF adjusted
                          THEN Mapping(<<pIdx, rIdx, tIdx>>, "explanationFlagMethod2Adjusted")
                          ELSE Mapping(<<pIdx, rIdx>>, "explanationFlagMethod2"))
      digitMappings ==
        spread(spread(spread(initialDigitMappings, early), br.maps),
               "cardType" :> Mapping(<<tIdx>>, br.cardTypeExplanationKey))
  IN  spread(spread([methodUsed |-> "2", reasonKey |-> reasonKey,
                     cardType |-> br.cardType,
                     stats |-> [hp |-> br.hp, st |-> br.st, df |-> br.df, dx |-> dx],
                     flag |-> flag, isHero |-> br.hero,
                     digitMappings |-> digitMappings],
                    Opt("reasonContext", reasonContext # NoObject, reasonContext)),
             br.opt)

parseMethod2(barcode, reasonKey, reasonContext, initialDigitMappings) ==
  LET len == Len(barcode)
      pIdx == len - 6
      qIdx == len - 5
      rIdx == len - 4
      sIdx == len - 3
      tIdx == len - 2
      P == safeParseInt(charAt(barcode, pIdx))
      Q == safeParseInt(charAt(barcode, qIdx))
      R == safeParseInt(charAt(barcode, rIdx))
      S == safeParseInt(charAt(barcode, sIdx))
      T == safeParseInt(charAt(barcode, tIdx))
      dx == 0
      originalFlag == 10 * P + R
      adjusted == originalFlag > 29 /\ T >= 5
      br == method2Branch(P, Q, R, S, T, pIdx, qIdx, rIdx, sIdx, tIdx)
      flag == IF br.hero THEN 50 ELSE IF adjusted THEN 0 ELSE originalFlag
      early == "stats.dx" :> Mapping(<<>>, "explanationDxMethod2")
            @@ "flag" :> (IF adjusted
                          THEN Mapping(<<pIdx, rIdx, tIdx>>, "explanationFlagMethod2Adjusted")
                          ELSE Mapping(<<pIdx, rIdx>>, "explanationFlagMethod2"))
      digitMappings ==
        spread(spread(spread(initialDigitMappings, early), br.maps),
               "cardType" :> Mapping(<<tIdx>>, br.cardTypeExplanationKey))
  IN  spread(spread([methodUsed |-> "2", reasonKey |-> reasonKey,
                     cardType |-> br.cardType,
                     stats |-> [hp |-> br.hp, st |-> br.st, df |-> br.df, dx |-> dx],
                     flag |-> flag, isHero |-> br.hero,
                     digitMappings |-> digitMappings],
                    Opt("reasonContext", reasonContext # NoObject, reasonContext)),
             br.opt)

(***************************************************************************)
(* parseBarcode                                                            *)
(***************************************************************************)
\* The test with && in place of ||.
method1RejectedBoth(A, C, J) == A > 2 /\ (C < 9 /\ J # 5)

\* The test that sends a 13-digit barcode to Method 2.
method1Rejected(A, C, J) == A > 2 /\ (C < 9 \/ J # 5)

\* The mappings kept in one object of the module, which every call adds to.
barcodeTypeMappingShared(barcodeTypeExplanationKey) ==
  spread(IF calls # <<>> /\ "digitMappings" \in DOMAIN calls[Len(calls)].ret
         THEN calls[Len(calls)].ret.digitMappings ELSE <<>>,
         "barcodeType" :> Mapping(<<>>, barcodeTypeExplanationKey))

\* The mappings a call starts from: a new object with the barcodeType entry.
barcodeTypeMapping(barcodeTypeExplanationKey) ==
  "barcodeType" :> Mapping(<<>>, barcodeTypeExplanationKey)

\* The validation that answers with the English sentences of the earlier
\* version in place of the keys.
validationErrorMessages(cleanedBarcode) ==
  IF ~allDigits(cleanedBarcode) THEN "Barcode must contain only digits."
  ELSE IF Len(cleanedBarcode) = 8 \/ Len(cleanedBarcode) = 13 THEN Undefined
  ELSE "Barcode must be 8 (EAN-8) or 13 (UPC-A/EAN-13) digits long."

\* The validation that also lets the 12 digits of a bare UPC-A through.
validationErrorUpc12(cleanedBarcode) ==
  IF ~allDigits(cleanedBarcode) THEN "barcodeInvalidChars"
  ELSE IF Len(cleanedBarcode) = 8 \/ Len(cleanedBarcode) = 12
          \/ Len(cleanedBarcode) = 13 THEN Undefined
  ELSE "barcodeInvalidLength"

\* The validation with the length checked before the characters.
validationErrorLengthFirst(cleanedBarcode) ==
  IF ~(Len(cleanedBarcode) = 8 \/ Len(cleanedBarcode) = 13) THEN "barcodeInvalidLength"
  ELSE IF ~allDigits(cleanedBarcode) THEN "barcodeInvalidChars"
  ELSE Undefined

\* The error of the basic validation, or Undefined when it passes.
validationError(cleanedBarcode) ==
  IF ~allDigits(cleanedBarcode) THEN "barcodeInvalidChars"
  ELSE IF Len(cleanedBarcode) = 8 \/ Len(cleanedBarcode) = 13 THEN Undefined
  ELSE "barcodeInvalidLength"

\* The test without its negation.
isFixedProductNoNegation(cleanedBarcode) ==
  cleanedBarcode \in DOMAIN exceptions /\ cleanedBarcode \in originalHeroBarcodes

\* A fixed-product exception: in the table and not an original hero.
isFixedProduct(cleanedBarcode) ==
  cleanedBarcode \in DOMAIN exceptions /\ cleanedBarcode \notin originalHeroBarcodes

\* The override that renames the method and the reason and leaves the
\* decoder's flag and isHero.
heroOverrideKeepsFlag(cleanedBarcode, parsedData) ==
  LET exceptionData == shallowCopy(cleanedBarcode)
  IN  spread(parsedData,
             [methodUsed |-> "Exception",
              reasonKey |-> exceptionData.reasonKey,
              reasonContext |-> exceptionData.reasonContext])

\* The original-hero override applied to the decoder's result.
heroOverride(cleanedBarcode, parsedData) ==
  LET exceptionData == shallowCopy(cleanedBarcode)
      named == spread(parsedData,
                      [methodUsed |-> "Exception",
                       reasonKey |-> exceptionData.reasonKey,
                       reasonContext |-> exceptionData.reasonContext])
      originalFlagIndices ==
        IF "flag" \in DOMAIN named.digitMappings
        THEN named.digitMappings["flag"].indices ELSE <<>>
  IN  IF "stats" \in DOMAIN named
      THEN spread(named,
                  [flag |-> 50, isHero |-> TRUE,
                   digitMappings |->
                     spread(named.digitMappings,
                            "flag" :> Mapping(originalFlagIndices, "explanationFlagMethod2Hero")
                         @@ "isHero" :> Mapping(<<>>, "explanationIsHeroMethod2"))])
      ELSE named

parseBarcode(barcode) ==
  LET cleanedBarcode == cleanBarcode(barcode)
      baseResult == [barcode |-> cleanedBarcode, isValid |-> FALSE]
      error == validationError(cleanedBarcode)
      isEan8 == Len(cleanedBarcode) = 8
      barcodeType == IF isEan8 THEN "EAN-8" ELSE "EAN-13/UPC-A"
      digitMappings ==
        barcodeTypeMapping(IF isEan8 THEN "explanationBarcodeTypeEan8"
                           ELSE "explanationBarcodeTypeEan13Upca")
      A == safeParseInt(charAt(cleanedBarcode, 0))
      C == safeParseInt(charAt(cleanedBarcode, 2))
      J == safeParseInt(charAt(cleanedBarcode, 9))
      acj == [A |-> A, C |-> C, J |-> J]
      methodUsed == IF isEan8 \/ method1Rejected(A, C, J) THEN "2" ELSE "1"
      reasonKey == IF isEan8 THEN "reasonMethod2Ean8"
                   ELSE IF methodUsed = "2" THEN "reasonMethod1Rejected"
                   ELSE "reasonMethod1Met"
      decoded ==
        IF isEan8
        THEN parseMethod2(D(<<0, 0, 0, 0, 0>>) \o cleanedBarcode, reasonKey,
                          NoObject, digitMappings)
        ELSE IF methodUsed = "2"
        THEN parseMethod2(cleanedBarcode, reasonKey, acj, digitMappings)
        ELSE parseMethod1(cleanedBarcode, reasonKey, acj, digitMappings)
      parsedData ==
        IF cleanedBarcode \in originalHeroBarcodes
        THEN heroOverride(cleanedBarcode, decoded)
        ELSE decoded
  IN  IF error # Undefined
      THEN spread(baseResult, [errorKey |-> error])
      ELSE IF isFixedProduct(cleanedBarcode)
      THEN spread(spread(spread(baseResult, shallowCopy(cleanedBarcode)),
                         [isValid |-> TRUE, barcodeType |-> barcodeType]),
                  [digitMappings |-> digitMappings])
      ELSE spread(spread(spread(baseResult,
                                [isValid |-> TRUE, barcodeType |-> barcodeType,
                                 methodUsed |-> methodUsed, reasonKey |-> reasonKey]),
                         parsedData),
                  [digitMappings |-> spread(digitMappings, parsedData.digitMappings)])

(***************************************************************************)
(* EAN-13 check digit (the helper kept in barcode-parser.test.ts)          *)
(***************************************************************************)
RECURSIVE sumAt(_, _)
sumAt(barcode, positions) ==
  IF positions = {} THEN 0
  ELSE LET i == CHOOSE p \in positions : TRUE
       IN  safeParseInt(charAt(barcode, i)) + sumAt(barcode, positions \ {i})

calculatedCheckDigit(barcode) ==
  LET sumOdd == sumAt(barcode, {i \in 0..11 : (i + 1) % 2 # 0})
      sumEven == sumAt(barcode, {i \in 0..11 : (i + 1) % 2 = 0})
      totalSum == sumOdd + sumEven * 3
  IN  (10 - (totalSum % 10)) % 10

isValidEan13CheckDigit(barcode) ==
  IF Len(barcode) # 13 THEN FALSE
  ELSE calculatedCheckDigit(barcode) = safeParseInt(charAt(barcode, 12))

(***************************************************************************)
(* Inputs                                                                  *)
(***************************************************************************)
MaxShortLen == 3

MaxCalls == 3

RarmanCP == D(<<0, 4, 0, 1, 2, 0, 7, 3, 3, 6, 5, 0, 1>>)

Kurif == D(<<0, 3, 4, 0, 9, 1, 2, 3, 7, 3, 5, 0, 3>>)

NJSword == D(<<0, 0, 0, 0, 4, 0, 0, 6, 0, 3, 2, 3, 8>>)

CNArmor == D(<<0, 0, 0, 0, 0, 0, 7, 8, 0, 1, 1, 4, 3>>)

HPGlass == D(<<0, 0, 0, 0, 0, 1, 8, 7, 0, 3, 3, 8, 2>>)

Grenzer == D(<<2, 0, 9, 6, 1, 7, 5, 3, 6, 5, 1, 8, 9>>)

Darman == D(<<1, 3, 1, 5, 6, 6, 1, 0, 6, 5, 7, 4, 9>>)

Dacrone == D(<<1, 7, 8, 4, 9, 8, 4, 1, 6, 6, 1, 8, 9>>)

Ean8Weapon == D(<<0, 0, 1, 2, 3, 4, 5, 6>>)

TooShort == D(<<1, 2, 3, 4, 5>>)

TooLong == D(<<3, 0, 8, 0, 0, 0, 0, 0, 0, 4, 1, 2, 3, 4, 5, 6>>)

Letters == <<"A", "B", "C", "D", "E", "F", "G", "H", "I", "J", "K", "L", "M">>

Fixtures ==
  {Console1, Console2, Rarman, URonchan, BonCurry, ChaHan, Meatman,
   RarmanCP, Kurif, NJSword, CNArmor, HPGlass, Grenzer, Darman, Dacrone,
   Ean8Weapon, TooShort, TooLong, Letters}

\* s with character c put in front of position k (0-based), at the end
\* when s is shorter.
insertAt(s, k, c) ==
  IF k >= Len(s) THEN Append(s, c)
  ELSE SubSeq(s, 1, k) \o <<c>> \o SubSeq(s, k + 1, Len(s))

\* s with the character at position k (0-based) replaced by c.
replaceAt(s, k, c) == [i \in DOMAIN s |-> IF i = k + 1 THEN c ELSE s[i]]

\* The check digit of twelve digits given as numbers.
checkDigitOf(ns) ==
  LET w(i) == IF i % 2 = 1 THEN 1 ELSE 3
      total == ns[1] * w(1) + ns[2] * w(2) + ns[3] * w(3) + ns[4] * w(4)
               + ns[5] * w(5) + ns[6] * w(6) + ns[7] * w(7) + ns[8] * w(8)
               + ns[9] * w(9) + ns[10] * w(10) + ns[11] * w(11) + ns[12] * w(12)
  IN  (10 - (total % 10)) % 10

\* 13-digit barcodes: twelve chosen digits and a right or a wrong check digit.
Generated13 ==
  {LET body == <<a, 1, c, df[1], 2, df[2], 3, h, i, j, kl[1], kl[2]>>
   IN  D(Append(body, (checkDigitOf(body) + off) % 10)) :
     a \in {0, 2, 3}, c \in {8, 9}, df \in {<<0, 1>>, <<1, 0>>, <<2, 2>>},
     h \in 0..9, i \in {0, 5, 6, 7, 8}, j \in {3, 5},
     kl \in {<<1, 9>>, <<5, 0>>, <<0, 4>>, <<3, 5>>, <<2, 6>>, <<1, 7>>, <<3, 8>>},
     off \in {0, 1}}

\* 8-digit barcodes.
Generated8 ==
  {D(<<u, 7, p, q, r, s, t, u>>) :
     u \in {0, 9}, p \in {0, 2, 3}, q \in {0, 3, 4, 5}, r \in {0, 3, 4, 9},
     s \in {0, 1, 7, 8}, t \in 0..9}

RECURSIVE stringsUpTo(_, _)
stringsUpTo(alphabet, n) ==
  IF n = 0 THEN {<<>>}
  ELSE LET shorter == stringsUpTo(alphabet, n - 1)
       IN  shorter \cup {Append(s, c) : s \in shorter, c \in alphabet}

ShortStrings == stringsUpTo({"1", "A", " ", "\t"}, MaxShortLen)

\* Fixtures cut or extended to every length up to 16.
Resized ==
  {SubSeq(f \o f, 1, n) : f \in {RarmanCP, Console1, Ean8Weapon}, n \in 0..16}

\* Fixtures with one character replaced by a non-digit.
Spoiled ==
  {replaceAt(f, k, c) : f \in {RarmanCP, Console1, Ean8Weapon, TooShort, TooLong},
                        k \in {0, 4, 7}, c \in {"A", "-"}}

\* Strings with one or two whitespace characters inserted.
Spaced ==
  LET base == Fixtures \cup Spoiled
      once == {insertAt(f, k, w) : f \in base, k \in {0, 5, 8}, w \in Whitespace}
      twice == {insertAt(insertAt(f, 5, w), k, w) : f \in base, k \in {6, 12}, w \in Whitespace}
  IN  once \cup twice

Inputs == Fixtures \cup Generated13 \cup Generated8 \cup ShortStrings
          \cup Resized \cup Spoiled \cup Spaced

\* The inputs of the runs with several calls.
CallInputs ==
  {Console1, insertAt(Console1, 13, " "), Rarman, insertAt(Rarman, 3, "\t"),
   RarmanCP, insertAt(insertAt(RarmanCP, 5, " "), 11, " "),
   Ean8Weapon, insertAt(insertAt(Ean8Weapon, 4, " "), 2, "\t"),
   TooShort, insertAt(TooShort, 0, " "), <<>>, <<"\t">>}

\* The inputs of the runs in which callers write to the records they hold.
CallerInputs == {Console1, insertAt(Console1, 13, " "), Rarman, RarmanCP, Ean8Weapon}

\* The inputs of the runs that compare two Method 2 decodings: 8-digit barcodes
\* and 13-digit barcodes that Method 1 rejects, with the same digits P..T and
\* different digits around them.
PairInputs ==
  LET core == {<<p, q, r, s, t>> : p \in {0, 3}, q \in {3, 4}, r \in {0, 9},
                                   s \in {1, 8}, t \in {0, 5, 8, 9}}
  IN  {D(<<0, 0>> \o c \o <<0>>) : c \in core}
      \cup {D(<<9, 1>> \o c \o <<7>>) : c \in core}
      \cup {D(<<3, 0, 0, 0, 0, 0, 0>> \o c \o <<0>>) : c \in core}
      \cup {D(<<9, 8, 1, 7, 6, 5, 4>> \o c \o <<9>>) : c \in core}

RECURSIVE seqsOfLen(_, _)
seqsOfLen(S, n) ==
  IF n = 0 THEN {<<>>}
  ELSE {<<x>> \o s : x \in S, s \in seqsOfLen(S, n - 1)}

(***************************************************************************)
(* State machine                                                           *)
(*   exceptions  the exception table, whose nested objects can be reached  *)
(*               through the records handed out                            *)
(*   pending     the barcodes the callers are going to pass                *)
(*   calls       the finished calls: the input, the record returned and    *)
(*               what that record read when it was returned                *)
(***************************************************************************)
Init ==
  /\ exceptions = exceptionsTable
  /\ pending \in {<<x>> : x \in Inputs}
  /\ calls = <<>>

InitCalls ==
  /\ exceptions = exceptionsTable
  /\ pending \in seqsOfLen(CallInputs, MaxCalls)
  /\ calls = <<>>

InitCaller ==
  /\ exceptions = exceptionsTable
  /\ pending \in seqsOfLen(CallerInputs, MaxCalls)
  /\ calls = <<>>

InitPairs ==
  /\ exceptions = exceptionsTable
  /\ pending \in seqsOfLen(PairInputs, 2)
  /\ calls = <<>>

\* A caller calls parseBarcode with the next barcode.
ParseBarcode ==
  /\ pending # <<>>
  /\ LET ret == parseBarcode(Head(pending))
     IN  calls' = Append(calls, [input |-> Head(pending), ret |-> ret,
                                 snap |-> View(exceptions, ret)])
  /\ pending' = Tail(pending)
  /\ UNCHANGED exceptions

\* The value a caller writes over field k: zero over a number, the empty
\* string over a name.
overwritten(k) == IF k = "hp" THEN 0 ELSE ""

\* A caller assigns to field k of the stats or the reasonContext of a record
\* it received.
CallerModifies(i, f, k) ==
  /\ i \in DOMAIN calls
  /\ f \in ObjectFields \cap DOMAIN calls[i].ret
  /\ LET obj == calls[i].ret[f]
     IN  IF IsRef(obj)
         THEN /\ k \in DOMAIN exceptions[obj.ref][f]
              /\ exceptions' = [exceptions EXCEPT ![obj.ref][f][k] = overwritten(k)]
              /\ UNCHANGED calls
         ELSE /\ k \in DOMAIN obj
              /\ calls' = [calls EXCEPT ![i].ret[f][k] = overwritten(k)]
              /\ UNCHANGED exceptions
  /\ UNCHANGED pending

Next == ParseBarcode

NextCaller ==
  \/ ParseBarcode
  \/ \E i \in 1..MaxCalls, f \in ObjectFields, k \in {"hp", "heroName", "productName"} :
       CallerModifies(i, f, k)

Spec == Init /\ [][Next]_vars

SpecCalls == InitCalls /\ [][Next]_vars

SpecCaller == InitCaller /\ [][NextCaller]_vars

SpecPairs == InitPairs /\ [][Next]_vars

\* The last finished call.
last == calls[Len(calls)]

done == calls # <<>>

(***************************************************************************)
(* Properties                                                              *)
(***************************************************************************)
Finished == DOMAIN calls

\* The input of call n without its whitespace characters.
RECURSIVE withoutWhitespace(_)
withoutWhitespace(x) ==
  IF x = <<>> THEN <<>>
  ELSE IF Head(x) \in {" ", "\t"} THEN withoutWhitespace(Tail(x))
  ELSE <<Head(x)>> \o withoutWhitespace(Tail(x))

stripped(n) == withoutWhitespace(calls[n].input)

onlyDigits(s) == \A i \in DOMAIN s : s[i] \in Digits

digit(s, i) == safeParseInt(charAt(s, i))

has(r, f) == f \in DOMAIN r

ResolvedCardTypes == {"Soldier", "Wizard", "Weapon", "Armour", "PowerUp"}

\* C1: a record returned with isValid true has a cardType, and it is one of
\* Soldier, Wizard, Weapon, Armour, PowerUp.
C1_ValidImpliesResolvedType ==
  \A n \in Finished :
    calls[n].snap.isValid =>
      /\ has(calls[n].snap, "cardType")
      /\ calls[n].snap.cardType \in ResolvedCardTypes

\* A Method 2 decode of a barcode with T = 9 has returned.
C1_Witness ==
  /\ done /\ last.snap.isValid /\ last.snap.methodUsed = "2"
  /\ digit(stripped(Len(calls)), 11) = 9 /\ Len(stripped(Len(calls))) = 13
  /\ last.snap.cardType = "PowerUp"

C4_CheckDigitGate ==
  \A n \in Finished :
    (Len(stripped(n)) = 13 /\ onlyDigits(stripped(n))) =>
      ((/\ ~calls[n].snap.isValid
        /\ has(calls[n].snap, "errorKey")
        /\ calls[n].snap.errorKey = "barcodeInvalidCheckDigit")
       <=> ~isValidEan13CheckDigit(stripped(n)))

\* C5: a valid record of a barcode outside the exception table has
\* methodUsed 2 for 8 digits; for 13 digits it has methodUsed 2 when A > 2
\* and (C < 9 or J # 5), methodUsed 1 otherwise, and reasonContext A, C, J.
C5_MethodChoice ==
  \A n \in Finished :
    (calls[n].snap.isValid /\ stripped(n) \notin DOMAIN exceptionsTable) =>
      LET b == stripped(n)
          A == digit(b, 0)
          C == digit(b, 2)
          J == digit(b, 9)
      IN  /\ Len(b) = 8 => calls[n].snap.methodUsed = "2"
          /\ Len(b) = 13 =>
               /\ calls[n].snap.methodUsed =
                    (IF A > 2 /\ (C < 9 \/ J # 5) THEN "2" ELSE "1")
               /\ has(calls[n].snap, "reasonContext")
               /\ calls[n].snap.reasonContext = [A |-> A, C |-> C, J |-> J]

\* A barcode with A > 2, C = 9 and J = 5 has been decoded by Method 1.
C5_Witness ==
  /\ done /\ last.snap.isValid /\ last.snap.methodUsed = "1"
  /\ digit(stripped(Len(calls)), 0) > 2

ConsoleCards ==
     Console1 :> [productName |-> "Barcode Battler Console", cardType |-> "Soldier",
                  stats |-> [hp |-> 5200, st |-> 1500, df |-> 100, dx |-> 6, pp |-> 5, mp |-> 0],
                  occupation |-> 0]
  @@ Console2 :> [productName |-> "Barcode Battler II Console", cardType |-> "Wizard",
                  stats |-> [hp |-> 5200, st |-> 1500, df |-> 100, dx |-> 7, pp |-> 5, mp |-> 10],
                  occupation |-> 8]

\* C6: each console barcode returns a valid record with methodUsed
\* Exception, the Epoch reason with the product name and the table's
\* cardType, stats, race, occupation, flag and isHero; no decoder adds a
\* field or a digit mapping.
C6_FixedProduct ==
  \A n \in Finished :
    stripped(n) \in DOMAIN ConsoleCards =>
      LET r == calls[n].snap
          card == ConsoleCards[stripped(n)]
      IN  /\ r.isValid
          /\ DOMAIN r = {"barcode", "isValid", "barcodeType", "methodUsed", "reasonKey",
                         "reasonContext", "cardType", "stats", "race", "occupation",
                         "flag", "isHero", "digitMappings"}
          /\ r.methodUsed = "Exception"
          /\ r.reasonKey = "reasonExceptionEpoch"
          /\ r.reasonContext = [productName |-> card.productName]
          /\ r.cardType = card.cardType
          /\ r.stats = card.stats
          /\ r.race = 1
          /\ r.occupation = card.occupation
          /\ r.flag = 50
          /\ r.isHero
          /\ DOMAIN r.digitMappings = {"barcodeType"}

\* The first console barcode, whose digits A = 4, C = 0 would select
\* Method 2, has been returned from the table.
C6_Witness ==
  /\ done /\ stripped(Len(calls)) = Console1
  /\ method1Rejected(4, 0, 2)
  /\ last.snap.stats.hp = 5200 /\ last.snap.methodUsed = "Exception"

HeroNames ==
     Rarman :> "Rarman" @@ URonchan :> "U-Ronchan" @@ BonCurry :> "Bon-Curry"
  @@ ChaHan :> "Cha-Han" @@ Meatman :> "Meatman"

\* C7: each original-hero barcode returns a valid record with methodUsed
\* Exception, the original-hero reason with the hero's name, flag 50 and
\* isHero true, and the cardType, stats, race and occupation that Method 1
\* computes for its digits; for 0120401154185 these are Soldier, hp 1200,
\* st 400, df 100, dx 4, pp 5, mp 0, race 1, occupation 5.
C7_OriginalHero ==
  \A n \in Finished :
    stripped(n) \in DOMAIN HeroNames =>
      LET r == calls[n].snap
          b == stripped(n)
          m1 == parseMethod1(b, "reasonMethod1Met",
                             [A |-> digit(b, 0), C |-> digit(b, 2), J |-> digit(b, 9)],
                             <<>>)
      IN  /\ r.isValid
          /\ r.methodUsed = "Exception"
          /\ r.reasonKey = "reasonExceptionOriginalHero"
          /\ r.reasonContext = [heroName |-> HeroNames[b]]
          /\ has(r, "flag") /\ r.flag = 50
          /\ has(r, "isHero") /\ r.isHero
          /\ r.cardType = m1.cardType
          /\ r.stats = m1.stats
          /\ r.race = m1.race
          /\ r.occupation = m1.occupation
          /\ b = Rarman =>
               /\ r.cardType = "Soldier"
               /\ r.stats = [hp |-> 1200, st |-> 400, df |-> 100, dx |-> 4, pp |-> 5, mp |-> 0]
               /\ r.race = 1 /\ r.occupation = 5
               /\ m1.flag = 18

\* The Rarman barcode has been decoded and its flag overridden.
C7_Witness ==
  /\ done /\ stripped(Len(calls)) = Rarman
  /\ last.snap.flag = 50 /\ last.snap.methodUsed = "Exception"

C9_CallerWritesStayLocal ==
  /\ exceptions = exceptionsTable
  /\ \A m, n \in Finished :
       stripped(m) = stripped(n) => calls[m].snap = calls[n].snap

\* C10: a call on a digit string d and a call on d with whitespace
\* characters inserted return the same record, whose barcode is d.
C10_WhitespaceTolerance ==
  \A m, n \in Finished :
    (onlyDigits(calls[m].input) /\ stripped(n) = calls[m].input) =>
      /\ calls[n].snap = calls[m].snap
      /\ calls[n].snap.barcode = calls[m].input

\* '0401207336501' and the same digits with two spaces have both been
\* decoded: valid, Method 1, hp 4000.
C10_Witness ==
  \E m, n \in Finished :
    /\ calls[m].input = RarmanCP
    /\ calls[n].input # RarmanCP /\ stripped(n) = RarmanCP
    /\ calls[n].snap.isValid /\ calls[n].snap.methodUsed = "1"
    /\ calls[n].snap.stats.hp = 4000
    /\ calls[n].snap.barcode = RarmanCP

\* C11: in every record returned with isValid true, by Method 1, Method 2
\* or the exception table, stats.hp, stats.st, stats.df and stats.dx are
\* at least 0, and so are stats.pp and stats.mp when they are present.
C11_Clamping ==
  \A n \in Finished :
    calls[n].snap.isValid =>
      /\ has(calls[n].snap, "stats")
      /\ LET s == calls[n].snap.stats
         IN  /\ s.hp >= 0 /\ s.st >= 0 /\ s.df >= 0 /\ s.dx >= 0
             /\ \A k \in {"pp", "mp"} \cap DOMAIN s : s[k] >= 0

\* An 8-digit barcode with P = 3, Q = 0 and T = 7 has been decoded by
\* Method 2 as an Armour whose three stats are all at the lower bound 0.
C11_Witness ==
  /\ done /\ last.snap.isValid /\ last.snap.methodUsed = "2"
  /\ Len(stripped(Len(calls))) = 8
  /\ last.snap.cardType = "Armour"
  /\ last.snap.stats.hp = 0 /\ last.snap.stats.st = 0 /\ last.snap.stats.df = 0

InvalidRecordFields == {"barcode", "isValid", "barcodeType", "errorKey", "errorContext"}

ErrorKinds ==
  {"barcodeInvalidChars", "barcodeInvalidLength", "barcodeInvalidCheckDigit",
   "barcodeError.UNKNOWN_GAME_ITEM"}

\* C13: the record returned has an errorKey exactly when isValid is false;
\* the errorKey of an invalid record is one of the error keys, and a valid
\* record, an exception result included, has neither errorKey nor
\* errorContext.
C13_ErrorKeyIffInvalid ==
  \A n \in Finished :
    LET r == calls[n].snap
    IN  /\ has(r, "errorKey") <=> ~r.isValid
        /\ ~r.isValid => r.errorKey \in ErrorKinds
        /\ r.isValid => ~has(r, "errorKey") /\ ~has(r, "errorContext")

\* An input made of whitespace only has been rejected with an error key.
C13_Witness ==
  /\ done /\ last.input # <<>> /\ stripped(Len(calls)) = <<>>
  /\ ~last.snap.isValid /\ has(last.snap, "errorKey")
  /\ last.snap.errorKey \in ErrorKinds

\* C14: every index listed in a digit mapping of a returned record is a
\* 0-based position of the string in the record's barcode field: 0..7 for
\* an 8-digit barcode, 0..12 for a 13-digit barcode.
C14_IndicesInRange ==
  \A n \in Finished :
    LET r == calls[n].snap
    IN  has(r, "digitMappings") =>
          \A k \in DOMAIN r.digitMappings :
            \A j \in DOMAIN r.digitMappings[k].indices :
              r.digitMappings[k].indices[j] \in 0..(Len(r.barcode) - 1)

\* C15: for every input, the call returns a record whose barcode is the
\* input without its whitespace and whose isValid is a boolean.
C15_ErrorsAreData ==
  \A n \in Finished :
    LET r == calls[n].snap
    IN  /\ has(r, "barcode") /\ r.barcode = stripped(n)
        /\ has(r, "isValid") /\ r.isValid \in BOOLEAN

\* 'ABCDEFGHIJKLM' with whitespace inserted has been answered with an
\* invalid record that holds the thirteen letters.
C15_Witness ==
  /\ done /\ last.input # Letters /\ stripped(Len(calls)) = Letters
  /\ last.snap.isValid = FALSE /\ last.snap.barcode = Letters

\* C16: an invalid record has a barcodeType; it is Unknown only when the
\* length of the stripped input is neither 8 nor 13, EAN-8 when the length
\* is 8 and EAN-13/UPC-A when it is 13.
C16_FailedDecodeBarcodeType ==
  \A n \in Finished :
    LET r == calls[n].snap
        len == Len(stripped(n))
    IN  ~r.isValid =>
          /\ has(r, "barcodeType")
          /\ r.barcodeType = "Unknown" => len \notin {8, 13}
          /\ len = 8 => r.barcodeType = "EAN-8"
          /\ len = 13 => r.barcodeType = "EAN-13/UPC-A"

\* C17: a 13-digit barcode decoded by Method 1 with H in 0..4 gives
\* race H, occupation I, Wizard if I >= 7 else Soldier, hp from A, B, C,
\* st from D, E plus 10000 if A > 2 and H is 0 or 2, df from F, G plus
\* 10000 if A > 2 and H is 1 or 2, dx J, pp 5, mp 10 if I >= 6 else 0, and
\* flag K*10 + L.
C17_Method1Warrior ==
  \A n \in Finished :
    LET r == calls[n].snap
        b == stripped(n)
        A == digit(b, 0)
        H == digit(b, 7)
        I == digit(b, 8)
    IN  (r.isValid /\ Len(b) = 13 /\ r.methodUsed = "1" /\ H \in 0..4) =>
          /\ has(r, "race") /\ r.race = H
          /\ has(r, "occupation") /\ r.occupation = I
          /\ r.cardType = (IF I >= 7 THEN "Wizard" ELSE "Soldier")
          /\ r.stats =
               [hp |-> A * 10000 + digit(b, 1) * 1000 + digit(b, 2) * 100,
                st |-> digit(b, 3) * 1000 + digit(b, 4) * 100
                       + (IF A > 2 /\ H \in {0, 2} THEN 10000 ELSE 0),
                df |-> digit(b, 5) * 1000 + digit(b, 6) * 100
                       + (IF A > 2 /\ H \in {1, 2} THEN 10000 ELSE 0),
                dx |-> digit(b, 9),
                pp |-> 5,
                mp |-> IF I >= 6 THEN 10 ELSE 0]
          /\ r.flag = digit(b, 10) * 10 + digit(b, 11)

\* A barcode with A = 3 and H = 2 has been decoded by Method 1 and both
\* bonuses have been added.
C17_Witness ==
  /\ done /\ last.snap.isValid /\ last.snap.methodUsed = "1"
  /\ digit(stripped(Len(calls)), 0) = 3 /\ digit(stripped(Len(calls)), 7) = 2
  /\ last.snap.stats.st >= 10000 /\ last.snap.stats.df >= 10000
  /\ last.snap.race = 2

\* C18: a 13-digit barcode decoded by Method 1 with H 5 or 6 gives a
\* Weapon, single use when H = 5, with st from D, E (plus the ST bonus),
\* df 0 and hp 0; with H 7 or 8 an Armour, single use when H = 7, with df
\* from F, G (plus the DF bonus), st 0 and hp 0; in both cases occupation I,
\* dx J, no race, no pp and no mp.
C18_Method1Items ==
  \A n \in Finished :
    LET r == calls[n].snap
        b == stripped(n)
        A == digit(b, 0)
        H == digit(b, 7)
        stBonus == IF A > 2 /\ H \in {0, 2} THEN 10000 ELSE 0
        dfBonus == IF A > 2 /\ H \in {1, 2} THEN 10000 ELSE 0
    IN  (r.isValid /\ Len(b) = 13 /\ r.methodUsed = "1" /\ H \in 5..8) =>
          /\ r.cardType = (IF H \in {5, 6} THEN "Weapon" ELSE "Armour")
          /\ has(r, "isSingleUse") /\ r.isSingleUse = (H \in {5, 7})
          /\ r.stats =
               [hp |-> 0,
                st |-> IF H \in {5, 6}
                       THEN digit(b, 3) * 1000 + digit(b, 4) * 100 + stBonus ELSE 0,
                df |-> IF H \in {7, 8}
                       THEN digit(b, 5) * 1000 + digit(b, 6) * 100 + dfBonus ELSE 0,
                dx |-> digit(b, 9)]
          /\ has(r, "occupation") /\ r.occupation = digit(b, 8)
          /\ ~has(r, "race")

\* '0000018703382' (H = 7) has been decoded as a single-use Armour with
\* df 1800.
C18_Witness ==
  /\ done /\ stripped(Len(calls)) = HPGlass
  /\ last.snap.isValid /\ last.snap.methodUsed = "1"
  /\ last.snap.cardType = "Armour" /\ last.snap.isSingleUse
  /\ last.snap.stats.df = 1800 /\ last.snap.stats.st = 0

\* The 13 characters Method 2 reads: an 8-digit barcode gets five zeros in
\* front.
padded(b) == IF Len(b) = 8 THEN <<"0", "0", "0", "0", "0">> \o b ELSE b

\* C19: a barcode decoded by Method 2, with P, Q, R, S, T at indices 7..11
\* of the 13 characters, gives for T 5 or 6 a Weapon, single use when
\* T = 5, st 1000*(1 + R div 4) + 100*((Q + 5) mod 10), hp 0, df 0, not a
\* hero; for T 7 or 8 an Armour, single use when T = 7,
\* df 1000*(Q div 4) + 100*((P + 7) mod 10), hp 0, st 0, not a hero;
\* '00123456' gives a single-use Weapon with st 1700 and flag 13.
C19_Method2Items ==
  \A n \in Finished :
    LET r == calls[n].snap
        b == padded(stripped(n))
        P == digit(b, 7)
        Q == digit(b, 8)
        R == digit(b, 9)
        T == digit(b, 11)
    IN  (r.isValid /\ r.methodUsed = "2") =>
          /\ T \in {5, 6} =>
               /\ r.cardType = "Weapon"
               /\ has(r, "isSingleUse") /\ r.isSingleUse = (T = 5)
               /\ r.stats.st = 1000 * (1 + (R \div 4)) + 100 * ((Q + 5) % 10)
               /\ r.stats.hp = 0 /\ r.stats.df = 0
               /\ r.isHero = FALSE
          /\ T \in {7, 8} =>
               /\ r.cardType = "Armour"
               /\ has(r, "isSingleUse") /\ r.isSingleUse = (T = 7)
               /\ r.stats.df = 1000 * (Q \div 4) + 100 * ((P + 7) % 10)
               /\ r.stats.hp = 0 /\ r.stats.st = 0
               /\ r.isHero = FALSE
          /\ stripped(n) = Ean8Weapon =>
               /\ r.cardType = "Weapon" /\ r.stats.st = 1700
               /\ r.flag = 13 /\ r.isSingleUse

\* '00123456' has been decoded by Method 2 as a single-use Weapon.
C19_Witness ==
  /\ done /\ stripped(Len(calls)) = Ean8Weapon
  /\ last.snap.isValid /\ last.snap.methodUsed = "2"
  /\ last.snap.cardType = "Weapon" /\ last.snap.stats.st = 1700

\* C20: in a valid record, flag when present is in 0..99, occupation when
\* present is in 0..9, race when present is in 0..4 and only a Soldier or
\* a Wizard has one, only a Weapon or an Armour has isSingleUse and only a
\* PowerUp has powerUpType.
C20_FieldRanges ==
  \A n \in Finished :
    LET r == calls[n].snap
    IN  r.isValid =>
          /\ has(r, "flag") => r.flag \in 0..99
          /\ has(r, "occupation") => r.occupation \in 0..9
          /\ has(r, "race") => r.race \in 0..4 /\ r.cardType \in {"Soldier", "Wizard"}
          /\ has(r, "isSingleUse") => r.cardType \in {"Weapon", "Armour"}
          /\ has(r, "powerUpType") => r.cardType = "PowerUp"

\* A Method 1 power-up with K = 3 and L = 8 has been returned: it has a
\* powerUpType and a flag, and neither race nor isSingleUse.
C20_Witness ==
  /\ done /\ last.snap.isValid /\ last.snap.methodUsed = "1"
  /\ last.snap.cardType = "PowerUp" /\ has(last.snap, "powerUpType")
  /\ last.snap.flag = 38
  /\ ~has(last.snap, "race") /\ ~has(last.snap, "isSingleUse")

C23_Method1HeroRule ==
  \A n \in Finished :
    LET r == calls[n].snap
        b == stripped(n)
        flag == digit(b, 10) * 10 + digit(b, 11)
    IN  (r.isValid /\ r.methodUsed = "1" /\ b \notin DOMAIN HeroNames) =>
          /\ has(r, "isHero")
          /\ r.isHero <=> (/\ flag \in {19, 50}
                            /\ r.stats.hp < 6000
                            /\ r.stats.st < 2000
                            /\ r.stats.df < 2000)

\* A Method 1 barcode with flag 19 and stats under the ceilings has been
\* returned as a hero.
C23_Witness ==
  /\ done /\ last.snap.isValid /\ last.snap.methodUsed = "1"
  /\ last.snap.flag = 19 /\ last.snap.isHero
  /\ last.snap.stats.hp < 6000

\* C24: a barcode decoded by Method 2 has flag 0 when T >= 5 and 10*P + R
\* exceeds 29, flag 10*P + R when T >= 5 and it is at most 29, and flag 50
\* when T < 5; so a Method 2 item has a flag in 0..29 and a Method 2
\* Soldier has flag 50.
C24_Method2FlagRule ==
  \A n \in Finished :
    LET r == calls[n].snap
        b == padded(stripped(n))
        T == digit(b, 11)
        original == 10 * digit(b, 7) + digit(b, 9)
    IN  (r.isValid /\ r.methodUsed = "2") =>
          /\ has(r, "flag")
          /\ r.flag = (IF T < 5 THEN 50 ELSE IF original > 29 THEN 0 ELSE original)
          /\ r.cardType \in {"Weapon", "Armour", "PowerUp"} => r.flag \in 0..29
          /\ r.cardType = "Soldier" => r.flag = 50

\* A Method 2 barcode with T = 5 and 10*P + R above 29 has been returned
\* with flag 0.
C24_Witness ==
  /\ done /\ last.snap.isValid /\ last.snap.methodUsed = "2"
  /\ digit(padded(stripped(Len(calls))), 11) = 5
  /\ 10 * digit(padded(stripped(Len(calls))), 7) + digit(padded(stripped(Len(calls))), 9) > 29
  /\ last.snap.flag = 0

C26_Method2FixedFields ==
  \A n \in Finished :
    LET r == calls[n].snap
    IN  (r.isValid /\ r.methodUsed = "2") =>
          /\ r.stats.dx = 0
          /\ ~has(r.stats, "pp") /\ ~has(r.stats, "mp")
          /\ ~has(r, "race") /\ ~has(r, "occupation")

\* A 13-digit barcode whose digit at index 9 is 5 has been decoded by
\* Method 2 and has dx 0.
C26_Witness ==
  /\ done /\ last.snap.isValid /\ last.snap.methodUsed = "2"
  /\ Len(stripped(Len(calls))) = 13 /\ digit(stripped(Len(calls)), 9) = 5
  /\ last.snap.stats.dx = 0 /\ ~has(last.snap, "occupation")

C28_UnresolvedTypeUnreachable ==
  \A n \in Finished :
    LET r == calls[n].snap
        b == stripped(n)
        checked == IF Len(b) = 13 THEN isValidEan13CheckDigit(b) ELSE Len(b) = 8
    IN  /\ (b # <<>> /\ onlyDigits(b) /\ checked) =>
              /\ r.isValid
              /\ has(r, "cardType") /\ r.cardType \in ResolvedCardTypes
              /\ ~has(r, "errorKey")
        /\ has(r, "errorKey") => r.errorKey # "barcodeError.UNKNOWN_GAME_ITEM"

\* A 13-digit barcode with the right check digit and T = 4 has been
\* decoded by Method 2 as a Soldier.
C28_Witness ==
  /\ done /\ Len(stripped(Len(calls))) = 13
  /\ onlyDigits(stripped(Len(calls)))
  /\ isValidEan13CheckDigit(stripped(Len(calls)))
  /\ last.snap.isValid /\ last.snap.methodUsed = "2"
  /\ digit(stripped(Len(calls)), 11) = 4
  /\ last.snap.cardType = "Soldier"

\* C30 as stated: a valid record with isHero true is a Soldier or a
\* Wizard, under Method 1 as well as Method 2.
C30_OnlyWarriorsAreHeroes ==
  \A n \in Finished :
    LET r == calls[n].snap
    IN  (r.isValid /\ has(r, "isHero") /\ r.isHero) =>
          r.cardType \in {"Soldier", "Wizard"}

\* C30 amended: a valid record with isHero true that Method 2 or the
\* exception table produced is a Soldier or a Wizard.
C30_OnlyWarriorsAreHeroesOutsideMethod1 ==
  \A n \in Finished :
    LET r == calls[n].snap
    IN  (r.isValid /\ has(r, "isHero") /\ r.isHero /\ r.methodUsed # "1") =>
          r.cardType \in {"Soldier", "Wizard"}

\* A 13-digit barcode has been decoded by Method 2 as a Soldier hero.
C30_Witness ==
  /\ done /\ Len(stripped(Len(calls))) = 13
  /\ last.snap.isValid /\ last.snap.methodUsed = "2"
  /\ last.snap.isHero /\ last.snap.cardType = "Soldier"


\* The fields of a record that describe the card.
CardFields == {"cardType", "stats", "flag", "isHero", "isSingleUse", "powerUpType"}

\* The digits P, Q, R, S, T of call n: the characters at indices 7..11 of the
\* 13-character form of its barcode.
pqrst(n) == SubSeq(padded(stripped(n)), 8, 12)

\* Call n was decoded by Method 2.
byMethod2(n) == calls[n].snap.isValid /\ calls[n].snap.methodUsed = "2"

\* C29: any two inputs decoded by Method 2 whose 13-character forms have the
\* same digits at indices 7..11 receive the same cardType, stats, flag, isHero,
\* isSingleUse and powerUpType, whatever the other digits are.
C29_Method2DependsOnlyOnPQRST ==
  \A m \in Finished : \A n \in Finished :
    (byMethod2(m) /\ byMethod2(n) /\ pqrst(m) = pqrst(n)) =>
      \A f \in CardFields :
        /\ has(calls[m].snap, f) <=> has(calls[n].snap, f)
        /\ has(calls[m].snap, f) => calls[m].snap[f] = calls[n].snap[f]

\* An 8-digit barcode and a 13-digit barcode that Method 1 rejects have both
\* been decoded by Method 2; they have the same P..T, the 8-digit one has
\* nonzero digits in front and at the end, the 13-digit one at indices 0..6
\* and 12.
C29_Witness ==
  \E m \in Finished : \E n \in Finished :
    /\ byMethod2(m) /\ byMethod2(n)
    /\ Len(stripped(m)) = 8 /\ Len(stripped(n)) = 13
    /\ pqrst(m) = pqrst(n)
    /\ digit(stripped(m), 0) # 0 /\ digit(stripped(m), 7) # 0
    /\ \A i \in (0..6) \cup {12} : digit(stripped(n), i) # 0
    /\ calls[m].snap.cardType = "PowerUp"
    /\ calls[m].snap.stats.hp > 10000
====
